---- MODULE Spec2Model ----
(***************************************************************************)
(* Profile-approval, contract-lifecycle and messaging workflows of         *)
(* RefugeeHostMatch:                                                       *)
(* the Express route handlers of server/routes.ts (src/unnamed/part_000)   *)
(* over the DatabaseStorage methods of src/server/storage.ts and the       *)
(* tables of src/shared/schema.ts.                                         *)
(*                                                                         *)
(* One action is one HTTP request handled from start to finish.  Every     *)
(* handler records the request it served and the response it sent, so      *)
(* that outcomes (403, 400, 500, 200 and the JSON body) are observable.    *)
(***************************************************************************)
EXTENDS Integers, Sequences, FiniteSets, TLC

(***************************************************************************)
(* Universes and bounds                                                    *)
(***************************************************************************)
\* ids of the rows of the users table (OIDC subject ids)
UserIds == {"u1", "u2", "u3"}

\* the literal recipient the handlers use for administrator-pool notices;
\* it is a subject id with no row in users
AdminPlaceholder == "admin"

\* every id a request may carry, as claims.sub or in its body
SubjectIds == UserIds \cup {AdminPlaceholder}

Roles == {"refugee", "host", "admin"}

ProfileStatuses == {"pending", "approved", "rejected"}

ContractStatuses == {"proposed", "signed_refugee", "signed_host", "completed", "cancelled"}

\* the statuses a proposal's body is given in the model; "default" is a body
\* without a status field
StatusInputs == {"default", "completed", "cancelled"}

MessageStatuses == {"sent", "delivered", "read"}

\* the statuses a message's body is given in the model; "default" is a body
\* without a status field
MessageStatusInputs == {"default", "delivered", "read"}

\* the texts a message's body is given in the model
Contents == {"text", "other text"}

\* the connections a WebSocket client may hold to /ws
SocketIds == {"s1", "s2"}

\* the durations a proposal carries in the model: two of the options of the
\* form, and a text without a leading number
Durations == {"3-6 months", "12+ months", "flexible"}

\* the start dates the proposal form is given in the model, counted in months
StartDates == {1, 2}

\* a timestamp column that holds NULL
Null == 0

\* an id column that holds NULL / an absent request field
NoId == "none"

\* the serial ids the contracts table hands out: contracts are addressed one
\* at a time by id, and the model follows one of them
ContractIds == {1}

\* rows refugee_profiles and host_profiles may hold together
MaxProfiles == 2

\* profile reviews that may be recorded in the notifications table
MaxReviews == 2

\* contract ratifications that may be recorded in the notifications table
MaxApprovals == 2

\* the serial ids the messages table hands out to POST /api/messages
MessageIds == {1, 2}

\* rows of a messages table given as a whole
MaxStored == 2

\* 'Contract Ready for Approval' notices the notifications table may hold
MaxReady == 2

\* the last instant of the clock
MaxTime == 2

VARIABLES
    users,            \* users table: id -> [role, profileStatus]
    refugeeProfiles,  \* refugee_profiles table: sequence of rows, index = serial id
    hostProfiles,     \* host_profiles table
    contracts,        \* contracts table: sequence of rows, index = serial id
    notifications,    \* notifications table: sequence of rows, index = serial id
    messages,         \* messages table: sequence of rows, index = serial id
    sockets,          \* the clients of the WebSocket server and what each was sent
    now,              \* the instant new Date() returns
    request,          \* the request served by the step that led here, if any
    response          \* the response sent to it

vars == <<users, refugeeProfiles, hostProfiles, contracts, notifications, messages, sockets, now,
          request, response>>

\* the database alone
tables == <<users, refugeeProfiles, hostProfiles, contracts, notifications, messages>>

(***************************************************************************)
(* Requests and responses: `body` is the one field of req.body a handler   *)
(* reads besides those named by the other fields                           *)
(***************************************************************************)
Req(op, caller, userId, contractId, approved) ==
    [op |-> op, caller |-> caller, userId |-> userId, contractId |-> contractId,
     approved |-> approved, messageId |-> 0, notificationId |-> 0, body |-> NoId]

\* a request of the messaging routes: userId is the other party
ReqMessage(op, caller, userId, messageId) ==
    [Req(op, caller, userId, 0, FALSE) EXCEPT !.messageId = messageId]

\* a request of POST /api/notifications/:id/read
ReqNotification(op, caller, notificationId) ==
    [Req(op, caller, NoId, 0, FALSE) EXCEPT !.notificationId = notificationId]

\* res.status(code).json(...): `hosts` is the JSON array of GET /api/hosts/available
Res(status, hosts) == [status |-> status, hosts |-> hosts, messages |-> <<>>]

\* res.json(message), res.json(messages): the rows of the messaging routes
ResMessages(status, rows) == [Res(status, <<>>) EXCEPT !.messages = rows]

NoRequest == Req("none", NoId, NoId, 0, FALSE)

NoResponse == Res(0, <<>>)

(***************************************************************************)
(* storage.ts                                                              *)
(***************************************************************************)
\* a row of users exists for this id (foreign keys reference users.id)
HasUser(id) == id \in DOMAIN users

\* getUser: the row, or undefined
NoUser == [role |-> "undefined", profileStatus |-> "undefined"]

getUser(id) == IF HasUser(id) THEN users[id] ELSE NoUser

\* updateProfileStatus: UPDATE users SET profile_status WHERE id = userId
updateProfileStatus(userId, status) ==
    [u \in DOMAIN users |->
        IF u = userId THEN [users[u] EXCEPT !.profileStatus = status] ELSE users[u]]

\* getApprovedHosts: users INNER JOIN host_profiles WHERE approved AND role = host,
\* one result row per joined pair
RECURSIVE JoinHosts(_)
JoinHosts(profiles) ==
    IF profiles = <<>> THEN <<>>
    ELSE LET p == Head(profiles)
             rest == JoinHosts(Tail(profiles))
         IN IF /\ HasUser(p.userId)
               /\ users[p.userId].profileStatus = "approved"
               /\ users[p.userId].role = "host"
            THEN <<[id |-> p.userId, role |-> users[p.userId].role,
                    profileStatus |-> users[p.userId].profileStatus,
                    hostProfile |-> p]>> \o rest
            ELSE rest

getApprovedHosts == JoinHosts(hostProfiles)

\* parseInt(duration.split('-')[0]): 0 stands for NaN
ParseMonths(duration) ==
    CASE duration = "3-6 months" -> 3
      [] duration = "12+ months" -> 12
      [] OTHER -> 0

\* parseInt(...) || 6
DurationMonths(duration) == IF ParseMonths(duration) = 0 THEN 6 ELSE ParseMonths(duration)

\* endDate.setMonth(endDate.getMonth() + durationMonths)
EndDate(startDate, duration) == startDate + DurationMonths(duration)

\* createContract: INSERT with the column defaults of the contracts table;
\* terms, duration, startDate and endDate are those of the proposal form
NewContract(refugeeId, hostId, statusInput, duration, startDate) ==
    [id |-> Len(contracts) + 1,
     refugeeId |-> refugeeId,
     hostId |-> hostId,
     status |-> IF statusInput = "default" THEN "proposed" ELSE statusInput,
     terms |-> "HOUSING AGREEMENT CONTRACT",
     duration |-> duration,
     startDate |-> startDate,
     endDate |-> EndDate(startDate, duration),
     refugeeSignedAt |-> Null,
     hostSignedAt |-> Null,
     adminApprovedAt |-> Null,
     adminApprovedBy |-> NoId]

\* a signature that replaces the counterpart's instead of joining it
signContract_Mutant(contractId, userType) ==
    [i \in DOMAIN contracts |->
        IF i = contractId
        THEN IF userType = "refugee"
             THEN [contracts[i] EXCEPT !.refugeeSignedAt = now, !.hostSignedAt = Null]
             ELSE [contracts[i] EXCEPT !.hostSignedAt = now, !.refugeeSignedAt = Null]
        ELSE contracts[i]]

\* signContract: UPDATE contracts SET <role>_signed_at = new Date() WHERE id
signContract(contractId, userType) ==
    [i \in DOMAIN contracts |->
        IF i = contractId
        THEN IF userType = "refugee"
             THEN [contracts[i] EXCEPT !.refugeeSignedAt = now]
             ELSE [contracts[i] EXCEPT !.hostSignedAt = now]
        ELSE contracts[i]]

\* a ratification that stamps the approval and leaves the status as it was
approveContract_Mutant(contractId, adminId) ==
    [i \in DOMAIN contracts |->
        IF i = contractId
        THEN [contracts[i] EXCEPT !.adminApprovedAt = now,
                                  !.adminApprovedBy = adminId]
        ELSE contracts[i]]

\* a ratification that computes the end date again, from the day of approval
approveContract_Recomputing(contractId, adminId) ==
    [i \in DOMAIN contracts |->
        IF i = contractId
        THEN [contracts[i] EXCEPT !.adminApprovedAt = now,
                                  !.adminApprovedBy = adminId,
                                  !.status = "completed",
                                  !.endDate = EndDate(now, contracts[i].duration)]
        ELSE contracts[i]]

\* approveContract: UPDATE contracts SET admin_approved_at, admin_approved_by,
\* status = completed WHERE id
approveContract(contractId, adminId) ==
    [i \in DOMAIN contracts |->
        IF i = contractId
        THEN [contracts[i] EXCEPT !.adminApprovedAt = now,
                                  !.adminApprovedBy = adminId,
                                  !.status = "completed"]
        ELSE contracts[i]]

\* sendMessage: INSERT with the column defaults of the messages table; zod
\* has stripped id, createdAt and readAt from the body
NewMessage(senderId, receiverId, content, statusInput, createdAt) ==
    [id |-> Len(messages) + 1,
     senderId |-> senderId,
     receiverId |-> receiverId,
     content |-> content,
     status |-> IF statusInput = "default" THEN "sent" ELSE statusInput,
     createdAt |-> createdAt,
     readAt |-> Null]

\* a query without its ORDER BY: the rows come in table order
OrderByCreatedAt_Mutant(rows) == rows

\* ORDER BY created_at ASC; rows of one instant keep their table order
RECURSIVE InsertByCreatedAt(_, _)
InsertByCreatedAt(row, sorted) ==
    IF sorted = <<>> THEN <<row>>
    ELSE IF sorted[Len(sorted)].createdAt <= row.createdAt
         THEN Append(sorted, row)
         ELSE Append(InsertByCreatedAt(row, SubSeq(sorted, 1, Len(sorted) - 1)),
                     sorted[Len(sorted)])

RECURSIVE OrderByCreatedAt(_)
OrderByCreatedAt(rows) ==
    IF rows = <<>> THEN <<>>
    ELSE InsertByCreatedAt(rows[Len(rows)],
                           OrderByCreatedAt(SubSeq(rows, 1, Len(rows) - 1)))

\* getConversation: SELECT ... WHERE (sender, receiver) is (userId1, userId2)
\* or (userId2, userId1) ORDER BY created_at ASC
getConversation(userId1, userId2) ==
    OrderByCreatedAt(
        SelectSeq(messages,
                  LAMBDA m : \/ (m.senderId = userId1 /\ m.receiverId = userId2)
                             \/ (m.senderId = userId2 /\ m.receiverId = userId1)))

\* an UPDATE that records the reading instant under the status delivered
markMessageAsRead_Mutant(messageId) ==
    [i \in DOMAIN messages |->
        IF i = messageId
        THEN [messages[i] EXCEPT !.status = "delivered", !.readAt = now]
        ELSE messages[i]]

\* markMessageAsRead: UPDATE messages SET status = read, read_at = new Date()
\* WHERE id
markMessageAsRead(messageId) ==
    [i \in DOMAIN messages |->
        IF i = messageId
        THEN [messages[i] EXCEPT !.status = "read", !.readAt = now]
        ELSE messages[i]]

\* getUserNotifications: SELECT ... WHERE user_id = userId
getUserNotifications(userId) ==
    SelectSeq(notifications, LAMBDA n : n.userId = userId)

\* an UPDATE that flips the flag instead of setting it
markNotificationAsRead_Mutant(notificationId) ==
    [i \in DOMAIN notifications |->
        IF i = notificationId
        THEN [notifications[i] EXCEPT !.read = ~@]
        ELSE notifications[i]]

\* markNotificationAsRead: UPDATE notifications SET read = true WHERE id
markNotificationAsRead(notificationId) ==
    [i \in DOMAIN notifications |->
        IF i = notificationId
        THEN [notifications[i] EXCEPT !.read = TRUE]
        ELSE notifications[i]]

\* createNotification: INSERT with read = false
Notification(userId, title, content, type) ==
    [userId |-> userId, title |-> title, content |-> content, type |-> type,
     read |-> FALSE]

(***************************************************************************)
(* routes: guards                                                          *)
(***************************************************************************)
\* a guard that lets every caller but a seeker through
IsAdmin_Mutant(caller) == getUser(caller).role # "refugee"

\* user?.role !== 'admin' is false
IsAdmin(caller) == getUser(caller).role = "admin"

\* !user || (user.role !== 'refugee' && user.role !== 'host') is false
MaySign(caller) == HasUser(caller) /\ getUser(caller).role \in {"refugee", "host"}

\* a guard that stops only the callers still pending
IsApproved_Mutant(caller) == HasUser(caller) /\ getUser(caller).profileStatus # "pending"

\* user?.profileStatus !== 'approved' is false
IsApproved(caller) == getUser(caller).profileStatus = "approved"

(***************************************************************************)
(* Initial state: three registered users, one of each role unless the      *)
(* third is a second seeker or host; every profile status is the default.  *)
(***************************************************************************)
\* a connection nobody holds: `user` is the identity whose browser opened
\* the connection, which the server never learns; `frames` is what the
\* server has sent down the connection
NoSocket == [readyState |-> "CLOSED", user |-> NoId, frames |-> <<>>]

InitExceptMessages ==
    /\ \E r \in Roles :
          users = [u \in UserIds |->
                     [role |-> CASE u = "u1" -> "refugee"
                                 [] u = "u2" -> "host"
                                 [] OTHER -> r,
                      profileStatus |-> "pending"]]
    /\ refugeeProfiles = <<>>
    /\ hostProfiles = <<>>
    /\ contracts = <<>>
    /\ notifications = <<>>
    /\ sockets = [s \in SocketIds |-> NoSocket]
    /\ now = 1
    /\ request = NoRequest
    /\ response = NoResponse

Init == InitExceptMessages /\ messages = <<>>

\* a deployment in which the identity provider has issued the subject id
\* "admin": the users table holds a row for it, an administrator's
InitSeeded ==
    /\ users = [u \in SubjectIds |->
                  [role |-> CASE u = "u1" -> "refugee"
                              [] u = "u2" -> "host"
                              [] OTHER -> "admin",
                   profileStatus |-> "pending"]]
    /\ refugeeProfiles = <<>>
    /\ hostProfiles = <<>>
    /\ contracts = <<>>
    /\ notifications = <<>>
    /\ messages = <<>>
    /\ sockets = [s \in SocketIds |-> NoSocket]
    /\ now = 1
    /\ request = NoRequest
    /\ response = NoResponse

\* the rows a messages table may hold, but for the id
StoredRows ==
    [senderId : UserIds, receiverId : UserIds, content : {"text"}, status : {"sent"},
     createdAt : 1..MaxTime, readAt : {Null}]

\* every content of the messages table of at most MaxStored rows
StoreContents ==
    UNION {{[i \in 1..n |->
               [id |-> i, senderId |-> f[i].senderId, receiverId |-> f[i].receiverId,
                content |-> f[i].content, status |-> f[i].status,
                createdAt |-> f[i].createdAt, readAt |-> f[i].readAt]] :
            f \in [1..n -> StoredRows]} : n \in 0..MaxStored}

\* the same server over a messages table of any content
InitStored == InitExceptMessages /\ messages \in StoreContents

(***************************************************************************)
(* The clock                                                               *)
(***************************************************************************)
Tick ==
    /\ now < MaxTime
    /\ now' = now + 1
    /\ request' = NoRequest
    /\ response' = NoResponse
    /\ UNCHANGED <<tables, sockets>>

(***************************************************************************)
(* POST /api/contracts                                                     *)
(***************************************************************************)
CreateContract(caller, valid, bodyRefugeeId, bodyHostId, statusInput, duration, startDate) ==
    LET role == getUser(caller).role
        refugeeId == IF role = "refugee" THEN caller ELSE bodyRefugeeId
        hostId == IF role = "refugee" THEN bodyHostId
                  ELSE IF role = "host" THEN caller ELSE bodyHostId
        notifyUserId == IF role = "refugee" THEN hostId ELSE refugeeId
    IN /\ Len(contracts) + 1 \in ContractIds
       /\ request' = Req("createContract", caller, NoId, 0, FALSE)
       /\ IF ~valid \/ ~HasUser(refugeeId) \/ ~HasUser(hostId)
          THEN \* the body fails to parse, or the INSERT violates a foreign key
               /\ response' = Res(400, <<>>)
               /\ UNCHANGED <<tables, sockets, now>>
          ELSE /\ contracts' = Append(contracts, NewContract(refugeeId, hostId, statusInput,
                                                            duration, startDate))
               /\ notifications' = Append(notifications,
                     Notification(notifyUserId, "New Contract Proposal", "proposal", "contract"))
               /\ response' = Res(200, <<>>)
               /\ UNCHANGED <<users, refugeeProfiles, hostProfiles, messages, sockets, now>>

(***************************************************************************)
(* POST /api/contracts/:id/sign                                            *)
(***************************************************************************)
NumReadyNotices ==
    Cardinality({i \in DOMAIN notifications :
                    notifications[i].title = "Contract Ready for Approval"})

SignContract(caller, contractId) ==
    /\ NumReadyNotices < MaxReady
    /\ request' = Req("signContract", caller, NoId, contractId, FALSE)
    /\ IF ~MaySign(caller)
       THEN /\ response' = Res(403, <<>>)
            /\ UNCHANGED <<tables, sockets, now>>
       ELSE LET signed == signContract(contractId, getUser(caller).role)
                bothSigned == /\ contractId \in DOMAIN signed
                              /\ signed[contractId].refugeeSignedAt # Null
                              /\ signed[contractId].hostSignedAt # Null
            IN /\ contracts' = signed
               /\ IF bothSigned
                  THEN IF HasUser(AdminPlaceholder)
                       THEN /\ notifications' = Append(notifications,
                                  Notification(AdminPlaceholder, "Contract Ready for Approval",
                                               "ready", "contract"))
                            /\ response' = Res(200, <<>>)
                       ELSE \* the INSERT violates notifications.user_id -> users.id
                            /\ UNCHANGED notifications
                            /\ response' = Res(500, <<>>)
                  ELSE /\ UNCHANGED notifications
                       /\ response' = Res(200, <<>>)
               /\ UNCHANGED <<users, refugeeProfiles, hostProfiles, messages, sockets, now>>

(***************************************************************************)
(* POST /api/contracts/:id/approve                                         *)
(***************************************************************************)
NumApprovalNotices ==
    Cardinality({i \in DOMAIN notifications : notifications[i].title = "Contract Approved"})

ApproveContract(caller, contractId) ==
    /\ NumApprovalNotices + 2 <= 2 * MaxApprovals
    /\ request' = Req("approveContract", caller, NoId, contractId, FALSE)
    /\ IF ~IsAdmin(caller)
       THEN /\ response' = Res(403, <<>>)
            /\ UNCHANGED <<tables, sockets, now>>
       ELSE LET approved == approveContract(contractId, caller)
            IN /\ contracts' = approved
               /\ IF contractId \in DOMAIN approved
                  THEN notifications' = notifications \o
                          <<Notification(approved[contractId].refugeeId, "Contract Approved",
                                         "housing", "contract"),
                            Notification(approved[contractId].hostId, "Contract Approved",
                                         "hosting", "contract")>>
                  ELSE UNCHANGED notifications
               /\ response' = Res(200, <<>>)
               /\ UNCHANGED <<users, refugeeProfiles, hostProfiles, messages, sockets, now>>

(***************************************************************************)
(* POST /api/admin/approve-profile                                         *)
(***************************************************************************)
\* a decision written the wrong way round
ReviewStatus_Mutant(approved) == IF approved THEN "rejected" ELSE "approved"

\* const status = approved ? "approved" : "rejected"
ReviewStatus(approved) == IF approved THEN "approved" ELSE "rejected"

NumReviewNotices ==
    Cardinality({i \in DOMAIN notifications :
                    notifications[i].title \in {"Profile Approved", "Profile Rejected"}})

ApproveProfile(caller, userId, approved) ==
    /\ NumReviewNotices < MaxReviews
    /\ request' = Req("approveProfile", caller, userId, 0, approved)
    /\ IF ~IsAdmin(caller)
       THEN /\ response' = Res(403, <<>>)
            /\ UNCHANGED <<tables, sockets, now>>
       ELSE /\ users' = updateProfileStatus(userId, ReviewStatus(approved))
            /\ IF HasUser(userId)
               THEN /\ notifications' = Append(notifications,
                          Notification(userId,
                                       IF approved THEN "Profile Approved" ELSE "Profile Rejected",
                                       IF approved THEN "approved" ELSE "rejected",
                                       "approval"))
                    /\ response' = Res(200, <<>>)
               ELSE \* the INSERT violates notifications.user_id -> users.id
                    /\ UNCHANGED notifications
                    /\ response' = Res(500, <<>>)
            /\ UNCHANGED <<refugeeProfiles, hostProfiles, contracts, messages, sockets, now>>

(***************************************************************************)
(* POST /api/profiles/refugee, POST /api/profiles/host                     *)
(***************************************************************************)
NumProfiles == Len(refugeeProfiles) + Len(hostProfiles)

SubmitRefugeeProfile(caller, valid) ==
    /\ NumProfiles < MaxProfiles
    /\ request' = Req("submitRefugeeProfile", caller, NoId, 0, FALSE)
    /\ IF ~valid \/ ~HasUser(caller)
       THEN \* the body fails to parse, or the INSERT violates a foreign key
            /\ response' = Res(400, <<>>)
            /\ UNCHANGED <<tables, sockets, now>>
       ELSE /\ refugeeProfiles' = Append(refugeeProfiles,
                  [id |-> Len(refugeeProfiles) + 1, userId |-> caller])
            /\ IF HasUser(AdminPlaceholder)
               THEN /\ notifications' = Append(notifications,
                          Notification(AdminPlaceholder, "New Refugee Profile", "submitted",
                                       "approval"))
                    /\ response' = Res(200, <<>>)
               ELSE \* the INSERT violates notifications.user_id -> users.id
                    /\ UNCHANGED notifications
                    /\ response' = Res(400, <<>>)
            /\ UNCHANGED <<users, hostProfiles, contracts, messages, sockets, now>>

SubmitHostProfile(caller, valid) ==
    /\ NumProfiles < MaxProfiles
    /\ request' = Req("submitHostProfile", caller, NoId, 0, FALSE)
    /\ IF ~valid \/ ~HasUser(caller)
       THEN /\ response' = Res(400, <<>>)
            /\ UNCHANGED <<tables, sockets, now>>
       ELSE /\ hostProfiles' = Append(hostProfiles,
                  [id |-> Len(hostProfiles) + 1, userId |-> caller])
            /\ IF HasUser(AdminPlaceholder)
               THEN /\ notifications' = Append(notifications,
                          Notification(AdminPlaceholder, "New Host Profile", "submitted",
                                       "approval"))
                    /\ response' = Res(200, <<>>)
               ELSE /\ UNCHANGED notifications
                    /\ response' = Res(400, <<>>)
            /\ UNCHANGED <<users, refugeeProfiles, contracts, messages, sockets, now>>

(***************************************************************************)
(* GET /api/hosts/available                                                *)
(***************************************************************************)
ListAvailableHosts(caller) ==
    /\ request' = Req("listAvailableHosts", caller, NoId, 0, FALSE)
    /\ IF ~IsApproved(caller)
       THEN response' = Res(403, <<>>)
       ELSE response' = Res(200, getApprovedHosts)
    /\ UNCHANGED <<tables, sockets, now>>

(***************************************************************************)
(* POST /api/auth/update-role: storage has no updateUserRole, so a valid   *)
(* role reaches a call of undefined and the handler answers 500.           *)
(***************************************************************************)
\* a handler whose storage call exists and writes the role the body names
UpdateRole_Mutant(caller, role) ==
    /\ request' = [Req("updateRole", caller, NoId, 0, FALSE) EXCEPT !.body = role]
    /\ IF role \notin Roles
       THEN /\ response' = Res(400, <<>>)
            /\ UNCHANGED users
       ELSE /\ response' = Res(200, <<>>)
            /\ users' = [u \in DOMAIN users |->
                            IF u = caller THEN [users[u] EXCEPT !.role = role] ELSE users[u]]
    /\ UNCHANGED <<refugeeProfiles, hostProfiles, contracts, notifications, messages, sockets,
                   now>>

UpdateRole(caller, role) ==
    /\ request' = [Req("updateRole", caller, NoId, 0, FALSE) EXCEPT !.body = role]
    /\ IF role \notin Roles
       THEN response' = Res(400, <<>>)
       ELSE response' = Res(500, <<>>)
    /\ UNCHANGED <<tables, sockets, now>>

(***************************************************************************)
(* POST /api/notifications/:id/read: any authenticated caller              *)
(***************************************************************************)
MarkNotificationAsRead(caller, notificationId) ==
    /\ request' = ReqNotification("markNotificationAsRead", caller, notificationId)
    /\ notifications' = markNotificationAsRead(notificationId)
    /\ response' = Res(200, <<>>)
    /\ UNCHANGED <<users, refugeeProfiles, hostProfiles, contracts, messages, sockets, now>>

(***************************************************************************)
(* POST /api/messages                                                      *)
(***************************************************************************)
\* JSON.stringify({ type: 'new_message', data: message })
Frame(message) == [type |-> "new_message", data |-> message]

\* a broadcast that does not look at readyState
Broadcast_Mutant(message) ==
    [s \in DOMAIN sockets |-> [sockets[s] EXCEPT !.frames = Append(@, Frame(message))]]

\* client.send(wsMessage) for every client of wss whose readyState is OPEN
Broadcast(message) ==
    [s \in DOMAIN sockets |->
        IF sockets[s].readyState = "OPEN"
        THEN [sockets[s] EXCEPT !.frames = Append(@, Frame(message))]
        ELSE sockets[s]]

\* a spread written the other way round, { senderId, ...req.body }
SenderId_Mutant(caller, bodySenderId) == IF bodySenderId = NoId THEN caller ELSE bodySenderId

\* { ...req.body, senderId }: the subject of the session overrides the body
SenderId(caller, bodySenderId) == caller

SendMessage(caller, valid, bodySenderId, receiverId, content, statusInput) ==
    LET senderId == SenderId(caller, bodySenderId)
        message == NewMessage(senderId, receiverId, content, statusInput, now)
    IN /\ Len(messages) + 1 \in MessageIds
       /\ request' = [ReqMessage("sendMessage", caller, receiverId, 0)
                         EXCEPT !.body = bodySenderId]
       /\ IF ~valid \/ ~HasUser(senderId) \/ ~HasUser(receiverId)
          THEN \* the body fails to parse, or the INSERT violates a foreign key
               /\ response' = Res(400, <<>>)
               /\ UNCHANGED <<tables, sockets, now>>
          ELSE /\ messages' = Append(messages, message)
               /\ sockets' = Broadcast(message)
               /\ response' = ResMessages(200, <<message>>)
               /\ UNCHANGED <<users, refugeeProfiles, hostProfiles, contracts, notifications,
                              now>>

(***************************************************************************)
(* GET /api/messages/:userId                                               *)
(***************************************************************************)
GetConversation(caller, otherUserId) ==
    /\ request' = ReqMessage("getConversation", caller, otherUserId, 0)
    /\ response' = ResMessages(200, getConversation(caller, otherUserId))
    /\ UNCHANGED <<tables, sockets, now>>

(***************************************************************************)
(* DatabaseStorage.markMessageAsRead, which no route calls                 *)
(***************************************************************************)
MarkMessageAsRead(messageId) ==
    /\ request' = ReqMessage("markMessageAsRead", NoId, NoId, messageId)
    /\ response' = NoResponse
    /\ messages' = markMessageAsRead(messageId)
    /\ UNCHANGED <<users, refugeeProfiles, hostProfiles, contracts, notifications, sockets,
                   now>>

(***************************************************************************)
(* The WebSocket server at /ws                                             *)
(***************************************************************************)
\* wss.on('connection'): a client joins wss.clients; the upgrade request is
\* not authenticated
WsConnect(s, user) ==
    /\ sockets[s].readyState = "CLOSED"
    /\ sockets' = [sockets EXCEPT ![s] = [readyState |-> "OPEN", user |-> user,
                                          frames |-> <<>>]]
    /\ request' = NoRequest
    /\ response' = NoResponse
    /\ UNCHANGED <<tables, now>>

\* ws.on('close'): the client leaves wss.clients
WsClose(s) ==
    /\ sockets[s].readyState = "OPEN"
    /\ sockets' = [sockets EXCEPT ![s] = NoSocket]
    /\ request' = NoRequest
    /\ response' = NoResponse
    /\ UNCHANGED <<tables, now>>

(***************************************************************************)
(* Specifications                                                          *)
(***************************************************************************)
\* the ids a request may name: every contract id and one id of no contract
ContractIdInputs == ContractIds \cup {Cardinality(ContractIds) + 1}

NextContract ==
    \/ Tick
    \/ \E c \in SubjectIds, valid \in BOOLEAN, r \in SubjectIds, h \in SubjectIds,
          s \in StatusInputs : CreateContract(c, valid, r, h, s, "12+ months", 1)
    \/ \E c \in SubjectIds, id \in ContractIdInputs : SignContract(c, id)
    \/ \E c \in SubjectIds, id \in ContractIdInputs : ApproveContract(c, id)

NextApproval ==
    \/ \E c \in SubjectIds, valid \in BOOLEAN : SubmitRefugeeProfile(c, valid)
    \/ \E c \in SubjectIds, valid \in BOOLEAN : SubmitHostProfile(c, valid)
    \/ \E c \in SubjectIds, u \in SubjectIds, a \in BOOLEAN : ApproveProfile(c, u, a)
    \/ \E c \in SubjectIds : ListAvailableHosts(c)

\* the onboarding route
NextIdentity ==
    \E c \in SubjectIds, role \in Roles \cup {"other"} : UpdateRole(c, role)

\* a seeker's proposals to a host of every duration and start date, their
\* signing and their ratification
NextTerms ==
    \/ Tick
    \/ \E d \in Durations, sd \in StartDates :
          CreateContract("u1", TRUE, NoId, "u2", "default", d, sd)
    \/ \E c \in SubjectIds, id \in ContractIdInputs : SignContract(c, id)
    \/ \E c \in SubjectIds, id \in ContractIdInputs : ApproveContract(c, id)

\* proposals between the seeker and the host, and sign requests of anyone
NextSigning ==
    \/ Tick
    \/ \E c \in {"u1", "u2"} : CreateContract(c, TRUE, "u1", "u2", "default", "12+ months", 1)
    \/ \E c \in SubjectIds, id \in ContractIdInputs : SignContract(c, id)

\* the routes that write the users table
NextRoles ==
    \/ NextIdentity
    \/ \E c \in SubjectIds, u \in SubjectIds, a \in BOOLEAN : ApproveProfile(c, u, a)

\* the routes behind a role guard, at one instant
NextAuthorization ==
    \/ \E c \in UserIds, r \in UserIds, h \in UserIds :
          CreateContract(c, TRUE, r, h, "default", "12+ months", 1)
    \/ \E c \in SubjectIds, id \in ContractIdInputs : SignContract(c, id)
    \/ \E c \in SubjectIds, id \in ContractIdInputs : ApproveContract(c, id)
    \/ \E c \in SubjectIds, a \in BOOLEAN : ApproveProfile(c, "u1", a)

\* the ids a request may name: every message id and one id of no message
MessageIdInputs == MessageIds \cup {Cardinality(MessageIds) + 1}

\* sending and reading messages; no WebSocket client is connected
NextMessaging ==
    \/ Tick
    \/ \E c \in SubjectIds, valid \in BOOLEAN, b \in {NoId, "u2"}, r \in SubjectIds,
          s \in MessageStatusInputs : SendMessage(c, valid, b, r, "text", s)
    \/ \E id \in MessageIdInputs : MarkMessageAsRead(id)

\* reading conversations
NextConversation ==
    \E c \in SubjectIds, o \in SubjectIds : GetConversation(c, o)

\* the ids a request may name: every review notice and one id of no notice
NotificationIdInputs == 1..(MaxReviews + 1)

\* profile reviews and the reading of their notices
NextNotifications ==
    \/ \E c \in SubjectIds, u \in SubjectIds, a \in BOOLEAN : ApproveProfile(c, u, a)
    \/ \E c \in SubjectIds, id \in NotificationIdInputs : MarkNotificationAsRead(c, id)

\* clients of the WebSocket server coming and going
NextSockets ==
    \/ \E s \in SocketIds, u \in UserIds : WsConnect(s, u)
    \/ \E s \in SocketIds : WsClose(s)

\* messages sent while clients come and go, the clock standing still
NextBroadcast ==
    \/ NextSockets
    \/ \E c \in UserIds, valid \in BOOLEAN, r \in SubjectIds, t \in Contents :
          SendMessage(c, valid, NoId, r, t, "default")

Next == NextContract \/ NextApproval \/ NextIdentity \/ NextMessaging \/ NextConversation
           \/ NextSockets \/ NextNotifications

\* every route of the workflow; its state space is the product of those of
\* the specifications below, which follow one workflow each
Spec == Init /\ [][Next]_vars

\* the contract routes alone: users and profiles stay as registered
SpecContract == Init /\ [][NextContract]_vars

\* the profile, review and discovery routes alone: no contract is proposed
SpecApproval == Init /\ [][NextApproval]_vars

\* the role-guarded routes of both workflows together, the clock standing still
SpecAuthorization == Init /\ [][NextAuthorization]_vars

\* the contract routes over proposals of every duration
SpecTerms == Init /\ [][NextTerms]_vars

\* proposing and signing where the recipient "admin" has a users row
SpecSeeded == InitSeeded /\ [][NextSigning]_vars

\* onboarding and profile reviews
SpecIdentity == Init /\ [][NextRoles]_vars

\* profile reviews and the notification routes
SpecNotifications == Init /\ [][NextNotifications]_vars

\* the messaging operations that write, from an empty messages table
SpecMessaging == Init /\ [][NextMessaging]_vars

\* the live push of new messages
SpecBroadcast == Init /\ [][NextBroadcast]_vars

\* getConversation over every content of the messages table
SpecConversation == InitStored /\ [][NextConversation]_vars

(***************************************************************************)
(* Properties of the contract workflow                                     *)
(***************************************************************************)
\* C1: every contract an administrator has ratified (adminApprovedAt set)
\* carries both the seeker's and the host's signature
C1_RatifiedHasBothSignatures ==
    \A i \in DOMAIN contracts :
        contracts[i].adminApprovedAt # Null =>
            /\ contracts[i].refugeeSignedAt # Null
            /\ contracts[i].hostSignedAt # Null

\* C2: a profile status only ever leaves pending: no request changes a status
\* that is already approved or rejected
C2_StatusLeavesOnlyPending ==
    [][\A u \in DOMAIN users :
          users'[u].profileStatus # users[u].profileStatus =>
              users[u].profileStatus = "pending"]_vars

\* C3: a contract's status is completed exactly when its adminApprovedAt is set
C3_CompletedIffRatified ==
    \A i \in DOMAIN contracts :
        (contracts[i].status = "completed") <=> (contracts[i].adminApprovedAt # Null)

\* C4: a sign request leaves a signature timestamp that is already set at the
\* value the first signature wrote
C4_SignIsIdempotent ==
    [][request'.op = "signContract" =>
          \A i \in DOMAIN contracts :
              /\ contracts[i].refugeeSignedAt # Null =>
                    contracts'[i].refugeeSignedAt = contracts[i].refugeeSignedAt
              /\ contracts[i].hostSignedAt # Null =>
                    contracts'[i].hostSignedAt = contracts[i].hostSignedAt]_vars

\* C5: refugeeSignedAt of a contract changes only in a request made by the
\* contract's refugeeId, and hostSignedAt only in one made by its hostId
C5_OnlyNamedPartySigns ==
    [][\A i \in DOMAIN contracts :
          /\ contracts'[i].refugeeSignedAt # contracts[i].refugeeSignedAt =>
                request'.caller = contracts[i].refugeeId
          /\ contracts'[i].hostSignedAt # contracts[i].hostSignedAt =>
                request'.caller = contracts[i].hostId]_vars

(***************************************************************************)
(* Properties of the approval workflow and of discovery                    *)
(***************************************************************************)
\* the requester of the request served last holds an approved profile
RequesterApproved ==
    /\ request.caller \in DOMAIN users
    /\ users[request.caller].profileStatus = "approved"

\* C6: a host listing asked for by a requester who is not approved (pending,
\* rejected or without a user row) is answered 403 and carries no host
C6_UnapprovedRequesterIsForbidden ==
    (request.op = "listAvailableHosts" /\ ~RequesterApproved) =>
        (response.status = 403 /\ response.hosts = <<>>)

\* a rejected requester has asked for the listing and was refused
C6_Witness ==
    /\ request.op = "listAvailableHosts"
    /\ request.caller \in DOMAIN users
    /\ users[request.caller].profileStatus = "rejected"
    /\ response.status = 403

\* the identities that are hosts, approved, and own a host profile
ApprovedHostsWithProfile ==
    {u \in DOMAIN users :
        /\ users[u].role = "host"
        /\ users[u].profileStatus = "approved"
        /\ \E i \in DOMAIN hostProfiles : hostProfiles[i].userId = u}

\* every row of the listing is an approved host paired with a host profile of its own
ListingRowsAreApprovedHosts ==
    \A i \in DOMAIN response.hosts :
        /\ response.hosts[i].role = "host"
        /\ response.hosts[i].profileStatus = "approved"
        /\ response.hosts[i].hostProfile.userId = response.hosts[i].id
        /\ \E k \in DOMAIN hostProfiles : hostProfiles[k] = response.hosts[i].hostProfile

\* C7: the listing an approved requester receives holds exactly the approved
\* hosts that own a host profile, each once, each with its own profile
C7_ListingIsExact ==
    (request.op = "listAvailableHosts" /\ response.status = 200) =>
        /\ {response.hosts[i].id : i \in DOMAIN response.hosts} = ApprovedHostsWithProfile
        /\ ListingRowsAreApprovedHosts
        /\ \A i, j \in DOMAIN response.hosts :
              response.hosts[i].id = response.hosts[j].id => i = j

\* C8: submitting a profile leaves every profile status as it was; when an
\* administrator approves an identity S, S is approved afterwards and S's
\* notification listing holds a notice titled 'Profile Approved'; and a host
\* listing asked for by an approved S is answered 200
C8_SubmitReviewBrowse ==
    [][/\ request'.op = "submitRefugeeProfile" => users' = users
       /\ \A s \in DOMAIN users :
             ( /\ request'.op = "approveProfile"
               /\ request'.approved
               /\ request'.caller \in DOMAIN users
               /\ users[request'.caller].role = "admin"
               /\ request'.userId = s )
             => ( /\ users'[s].profileStatus = "approved"
                  /\ \E i \in DOMAIN getUserNotifications(s)' :
                        getUserNotifications(s)'[i].title = "Profile Approved" )
       /\ ( /\ request'.op = "listAvailableHosts"
            /\ request'.caller \in DOMAIN users
            /\ users[request'.caller].profileStatus = "approved" )
          => response'.status = 200]_vars

\* a seeker who submitted a profile and was approved holds the approval notice
\* and has just been served the host listing
C8_Witness ==
    \E s \in DOMAIN users :
        /\ users[s].role = "refugee"
        /\ \E i \in DOMAIN refugeeProfiles : refugeeProfiles[i].userId = s
        /\ users[s].profileStatus = "approved"
        /\ \E i \in DOMAIN getUserNotifications(s) :
              getUserNotifications(s)[i].title = "Profile Approved"
        /\ request.op = "listAvailableHosts"
        /\ request.caller = s
        /\ response.status = 200

(***************************************************************************)
(* Properties of ratification and of the role guards                       *)
(***************************************************************************)
\* the rows a step adds to the notifications table
NewNotifications == SubSeq(notifications', Len(notifications) + 1, Len(notifications'))

\* how many of the rows a step adds are 'Contract Approved' notices for userId
NumRatificationNoticesFor(userId) ==
    Cardinality({i \in DOMAIN NewNotifications :
                    /\ NewNotifications[i].title = "Contract Approved"
                    /\ NewNotifications[i].userId = userId})

\* C9: when an administrator approves an existing contract that its host and
\* its seeker have both signed, the contract is completed, adminApprovedAt is
\* set, adminApprovedBy is the calling administrator, and the request creates
\* exactly one 'Contract Approved' notice for refugeeId and one for hostId
C9_RatificationCompletesAndNotifies ==
    [][\A id \in DOMAIN contracts :
          ( /\ request'.op = "approveContract"
            /\ request'.contractId = id
            /\ request'.caller \in DOMAIN users
            /\ users[request'.caller].role = "admin"
            /\ users[contracts[id].refugeeId].role = "refugee"
            /\ users[contracts[id].hostId].role = "host"
            /\ contracts[id].refugeeSignedAt # Null
            /\ contracts[id].hostSignedAt # Null )
          => ( /\ contracts'[id].status = "completed"
               /\ contracts'[id].adminApprovedAt # Null
               /\ contracts'[id].adminApprovedBy = request'.caller
               /\ NumRatificationNoticesFor(contracts[id].refugeeId) = 1
               /\ NumRatificationNoticesFor(contracts[id].hostId) = 1
               /\ Len(NewNotifications) = 2 )]_vars

\* the host signed, later the seeker signed, and an administrator's approval
\* has just been served
C9_Witness ==
    \E id \in DOMAIN contracts :
        /\ request.op = "approveContract"
        /\ request.contractId = id
        /\ response.status = 200
        /\ users[contracts[id].refugeeId].role = "refugee"
        /\ users[contracts[id].hostId].role = "host"
        /\ contracts[id].hostSignedAt # Null
        /\ contracts[id].hostSignedAt < contracts[id].refugeeSignedAt
        /\ contracts[id].status = "completed"
        /\ contracts[id].adminApprovedBy = request.caller
        /\ \E i \in DOMAIN notifications :
              /\ notifications[i].title = "Contract Approved"
              /\ notifications[i].userId = contracts[id].refugeeId
        /\ \E i \in DOMAIN notifications :
              /\ notifications[i].title = "Contract Approved"
              /\ notifications[i].userId = contracts[id].hostId

\* the caller of the next request holds the given role
NextCallerHasRole(role) ==
    /\ request'.caller \in DOMAIN users
    /\ users[request'.caller].role = role

\* C10: a profile review or a contract approval asked for by a caller who is
\* no administrator, and a sign request made by an administrator, is answered
\* 403 and leaves every table as it was
C10_RoleGuardsFailClosed ==
    [][( \/ /\ request'.op \in {"approveProfile", "approveContract"}
            /\ ~NextCallerHasRole("admin")
         \/ /\ request'.op = "signContract"
            /\ NextCallerHasRole("admin") )
       => ( /\ response'.status = 403
            /\ UNCHANGED tables )]_vars

\* a host asked to ratify a contract both parties had signed and was refused
C10_Witness ==
    /\ request.op = "approveContract"
    /\ request.caller \in DOMAIN users
    /\ users[request.caller].role = "host"
    /\ response.status = 403
    /\ request.contractId \in DOMAIN contracts
    /\ contracts[request.contractId].refugeeSignedAt # Null
    /\ contracts[request.contractId].hostSignedAt # Null
    /\ contracts[request.contractId].adminApprovedAt = Null

(***************************************************************************)
(* Properties of the profile and contract records                          *)
(***************************************************************************)
\* C11: every identity owns at most one seeker profile and at most one host
\* profile, and a profile only of the variant of its role
C11_OneProfilePerIdentity ==
    /\ \A i, j \in DOMAIN refugeeProfiles :
          refugeeProfiles[i].userId = refugeeProfiles[j].userId => i = j
    /\ \A i, j \in DOMAIN hostProfiles :
          hostProfiles[i].userId = hostProfiles[j].userId => i = j
    /\ \A i \in DOMAIN refugeeProfiles : users[refugeeProfiles[i].userId].role = "refugee"
    /\ \A i \in DOMAIN hostProfiles : users[hostProfiles[i].userId].role = "host"

\* C12: a signature timestamp of a contract that is set stays set: no request
\* removes the contract or returns refugeeSignedAt or hostSignedAt to null
C12_SignaturesAreNeverCleared ==
    [][\A i \in DOMAIN contracts :
          /\ i \in DOMAIN contracts'
          /\ contracts[i].refugeeSignedAt # Null => contracts'[i].refugeeSignedAt # Null
          /\ contracts[i].hostSignedAt # Null => contracts'[i].hostSignedAt # Null]_vars

\* the seeker signed, at a later instant the host signed, and the seeker's
\* signature is still there
C12_Witness ==
    \E i \in DOMAIN contracts :
        /\ request.op = "signContract"
        /\ request.caller = contracts[i].hostId
        /\ contracts[i].refugeeSignedAt # Null
        /\ contracts[i].refugeeSignedAt < contracts[i].hostSignedAt

\* C13: a contract whose status is completed or cancelled keeps that status
\* in every later request
C13_TerminalStatusIsAbsorbing ==
    [][\A i \in DOMAIN contracts :
          contracts[i].status \in {"completed", "cancelled"} =>
              contracts'[i].status = contracts[i].status]_vars

\* C14: the contract a proposal has just created is proposed, unsigned and
\* not ratified
C14_NewContractIsProposed ==
    (request.op = "createContract" /\ response.status = 200) =>
        LET c == contracts[Len(contracts)]
        IN /\ c.status = "proposed"
           /\ c.refugeeSignedAt = Null
           /\ c.hostSignedAt = Null
           /\ c.adminApprovedAt = Null
           /\ c.adminApprovedBy = NoId

\* C15: refugeeId of every contract is an identity whose role is seeker and
\* hostId one whose role is host, and a proposal creates a contract only when
\* its caller is one of the two
C15_ContractNamesSeekerAndHost ==
    /\ \A i \in DOMAIN contracts :
          /\ contracts[i].refugeeId \in DOMAIN users
          /\ users[contracts[i].refugeeId].role = "refugee"
          /\ contracts[i].hostId \in DOMAIN users
          /\ users[contracts[i].hostId].role = "host"
    /\ (request.op = "createContract" /\ response.status = 200) =>
          request.caller \in {contracts[Len(contracts)].refugeeId,
                              contracts[Len(contracts)].hostId}

(***************************************************************************)
(* Properties of the notices to the administrators                         *)
(***************************************************************************)
\* the contract the next request names exists and carries both signatures
\* once the request is served
NextContractBothSigned ==
    /\ request'.contractId \in DOMAIN contracts'
    /\ contracts'[request'.contractId].refugeeSignedAt # Null
    /\ contracts'[request'.contractId].hostSignedAt # Null

\* C16: once a sign request is served and the contract carries both
\* signatures, a notice titled 'Contract Ready for Approval' is in the
\* notifications table; a sign request that leaves a signature missing adds
\* no such notice
C16_BothSignedEmitsReadyNotice ==
    [][request'.op = "signContract" =>
          /\ NextContractBothSigned =>
                \E i \in DOMAIN notifications' :
                    notifications'[i].title = "Contract Ready for Approval"
          /\ ~NextContractBothSigned =>
                \A i \in DOMAIN NewNotifications :
                    NewNotifications[i].title # "Contract Ready for Approval"]_vars

\* the titles of the notices addressed to the administrators
AdminPoolTitles == {"New Refugee Profile", "New Host Profile", "Contract Ready for Approval"}

\* the next request stores a profile, or a signature that completes the pair
NextEmitsToAdminPool ==
    \/ /\ request'.op = "submitRefugeeProfile"
       /\ Len(refugeeProfiles') > Len(refugeeProfiles)
    \/ /\ request'.op = "submitHostProfile"
       /\ Len(hostProfiles') > Len(hostProfiles)
    \/ /\ request'.op = "signContract"
       /\ contracts' # contracts
       /\ NextContractBothSigned

\* C17: when a profile is submitted or a contract gets its second signature,
\* every identity whose role is administrator at that moment finds a notice
\* of the administrator pool, created by that request, in its own
\* notification listing
C17_AdminPoolNoticeReachesEveryAdmin ==
    [][NextEmitsToAdminPool =>
          \A a \in DOMAIN users :
              users[a].role = "admin" =>
                  \E i \in DOMAIN NewNotifications :
                      /\ NewNotifications[i].userId = a
                      /\ NewNotifications[i].title \in AdminPoolTitles
                      /\ \E k \in DOMAIN getUserNotifications(a)' :
                            getUserNotifications(a)'[k] = NewNotifications[i]]_vars

(***************************************************************************)
(* Properties of messaging                                                 *)
(***************************************************************************)
\* C18: the message a send request has just created has status sent and no
\* reading instant
C18_NewMessageIsSent ==
    (request.op = "sendMessage" /\ response.status = 200) =>
        /\ messages[Len(messages)].status = "sent"
        /\ messages[Len(messages)].readAt = Null

\* the place of a status in the order sent < delivered < read
StatusRank(status) ==
    CASE status = "sent" -> 1
      [] status = "delivered" -> 2
      [] status = "read" -> 3

InConversation(m, a, b) ==
    \/ (m.senderId = a /\ m.receiverId = b)
    \/ (m.senderId = b /\ m.receiverId = a)

\* C20: the rows a conversation request for (A, B) is answered with are rows
\* of the messages table exchanged between A and B, every such row is there
\* exactly once, their creation instants never decrease along the answer,
\* and the conversation asked as (B, A) holds the same rows
C20_ConversationIsExactAndOrdered ==
    (request.op = "getConversation" /\ response.status = 200) =>
        LET a == request.caller
            b == request.userId
            rows == response.messages
            swapped == getConversation(b, a)
        IN /\ \A k \in DOMAIN rows :
                 \E i \in DOMAIN messages :
                     messages[i] = rows[k] /\ InConversation(messages[i], a, b)
           /\ \A i \in DOMAIN messages :
                 InConversation(messages[i], a, b) =>
                     Cardinality({k \in DOMAIN rows : rows[k] = messages[i]}) = 1
           /\ \A k \in DOMAIN rows :
                 k + 1 \in DOMAIN rows => rows[k].createdAt <= rows[k + 1].createdAt
           /\ {rows[k] : k \in DOMAIN rows} = {swapped[k] : k \in DOMAIN swapped}

\* a conversation of two messages, one in each direction, stored against the
\* order of their creation instants, has been asked for
C20_Witness ==
    /\ request.op = "getConversation"
    /\ Len(response.messages) = 2
    /\ Len(messages) = 2
    /\ messages[1].createdAt > messages[2].createdAt
    /\ messages[1].senderId = messages[2].receiverId
    /\ messages[1].senderId # messages[1].receiverId
    /\ response.messages[1] = messages[2]

(***************************************************************************)
(* Properties of the notifications                                         *)
(***************************************************************************)
\* the listings of the next state that hold the notice
NextListingsHolding(n) ==
    {u \in SubjectIds : \E k \in DOMAIN getUserNotifications(u)' :
                            getUserNotifications(u)'[k] = n}

\* C21: the notice a profile review creates for U is unread and is in the
\* listing of U and of nobody else; a mark request sets the read flag of the
\* notice it names; a read notice never becomes unread; and a mark request
\* for a notice already read leaves the notifications table as it was
C21_ReviewNoticeRoundTrip ==
    [][/\ ( request'.op = "approveProfile" /\ response'.status = 200 ) =>
             /\ Len(NewNotifications) = 1
             /\ NewNotifications[1].userId = request'.userId
             /\ NewNotifications[1].read = FALSE
             /\ NextListingsHolding(NewNotifications[1]) = {request'.userId}
       /\ \A i \in DOMAIN notifications :
             /\ ( request'.op = "markNotificationAsRead" /\ request'.notificationId = i ) =>
                   notifications'[i].read = TRUE
             /\ notifications[i].read => notifications'[i].read
             /\ ( /\ request'.op = "markNotificationAsRead"
                  /\ request'.notificationId = i
                  /\ notifications[i].read ) => notifications' = notifications]_vars

\* a review notice of a rejected user has been marked read by that user
C21_Witness ==
    \E i \in DOMAIN notifications :
        /\ request.op = "markNotificationAsRead"
        /\ request.notificationId = i
        /\ request.caller = notifications[i].userId
        /\ notifications[i].title = "Profile Rejected"
        /\ notifications[i].read
        /\ \E k \in DOMAIN getUserNotifications(request.caller) :
              getUserNotifications(request.caller)[k] = notifications[i]

\* C22: the read flag of a notice changes only in a mark request made by the
\* notice's recipient, and every notice stays in the table with its
\* recipient, title, content and type
C22_OnlyRecipientMarksRead ==
    [][\A i \in DOMAIN notifications :
          /\ i \in DOMAIN notifications'
          /\ notifications'[i].read # notifications[i].read =>
                /\ request'.op = "markNotificationAsRead"
                /\ request'.caller = notifications[i].userId
          /\ notifications'[i].userId = notifications[i].userId
          /\ notifications'[i].title = notifications[i].title
          /\ notifications'[i].content = notifications[i].content
          /\ notifications'[i].type = notifications[i].type]_vars

NextPersisted == messages'[Len(messages')]

\* the next request is a send that succeeds
NextSendSucceeds == request'.op = "sendMessage" /\ response'.status = 200

\* C24: what a send pushes to an open connection held by an identity that is
\* neither the sender nor the receiver is the same whatever the content of
\* the message: it is the frame the same send would push for every other
\* content
C24_ThirdPartySeesNoContent ==
    [][NextSendSucceeds =>
          \A s \in SocketIds :
              ( /\ sockets[s].readyState = "OPEN"
                /\ sockets[s].user \notin {NextPersisted.senderId, NextPersisted.receiverId} )
              => \A t \in Contents :
                    sockets'[s].frames =
                        Append(sockets[s].frames,
                               [type |-> "new_message",
                                data |-> [NextPersisted EXCEPT !.content = t]])]_vars

\* C27: a send that succeeds adds one row to the messages table and pushes
\* exactly one new_message frame carrying that row to every connection that
\* is open, and nothing to a connection that is not; a send that fails
\* leaves the messages table and every connection as they were
C27_BroadcastReachesOpenSessions ==
    [][/\ NextSendSucceeds =>
             /\ Len(messages') = Len(messages) + 1
             /\ \A s \in SocketIds :
                   IF sockets[s].readyState = "OPEN"
                   THEN sockets'[s] =
                            [sockets[s] EXCEPT !.frames =
                                Append(@, [type |-> "new_message", data |-> NextPersisted])]
                   ELSE sockets'[s] = sockets[s]
       /\ ( request'.op = "sendMessage" /\ response'.status # 200 ) =>
             /\ messages' = messages
             /\ sockets' = sockets]_vars

\* the second message has been pushed to a connection opened after the first
\* was sent, while the other connection is closed and holds nothing
C27_Witness ==
    /\ request.op = "sendMessage"
    /\ response.status = 200
    /\ Len(messages) = 2
    /\ sockets["s1"].readyState = "OPEN"
    /\ sockets["s1"].frames = <<[type |-> "new_message", data |-> messages[2]]>>
    /\ sockets["s2"].readyState = "CLOSED"
    /\ sockets["s2"].frames = <<>>

\* C29: the senderId of the message a send has just persisted is the caller
\* of the request, whatever senderId the body carries
C29_SenderIsTheCaller ==
    [][NextSendSucceeds => NextPersisted.senderId = request'.caller]_vars

\* a caller has sent a message whose body names another identity as sender,
\* and the message carries the caller
C29_Witness ==
    /\ request.op = "sendMessage"
    /\ response.status = 200
    /\ request.body \in DOMAIN users
    /\ request.body # request.caller
    /\ messages[Len(messages)].senderId = request.caller

(***************************************************************************)
(* Properties of the reported outcomes                                     *)
(***************************************************************************)
\* C25: a profile submit, a profile review, a proposal, a sign or an approval
\* that is not answered 200 leaves every table as it was, its notice
\* included, so that a notice is added only by a request answered 200
C25_OutcomeAgreesWithTables ==
    [][request'.op \in {"submitRefugeeProfile", "submitHostProfile", "approveProfile",
                        "createContract", "signContract", "approveContract"} =>
          /\ response'.status # 200 => UNCHANGED tables
          /\ notifications' # notifications => response'.status = 200]_vars

\* C26: a sign or an approval that names an id of no contract is not answered
\* 200
C26_MissingContractIsNotSuccess ==
    ( /\ request.op \in {"signContract", "approveContract"}
      /\ request.contractId \notin DOMAIN contracts ) => response.status # 200

(***************************************************************************)
(* Properties of the contract terms                                        *)
(***************************************************************************)
\* the contract without its signature columns
WithoutSignatures(c) == [c EXCEPT !.refugeeSignedAt = Null, !.hostSignedAt = Null]

\* the contract without its approval columns and its status
WithoutApproval(c) ==
    [c EXCEPT !.adminApprovedAt = Null, !.adminApprovedBy = NoId, !.status = "proposed"]

\* C28: a sign request changes nothing of a contract but the signature
\* timestamp of the caller's own role, an approval changes nothing but
\* adminApprovedAt, adminApprovedBy and status, and so refugeeId, hostId,
\* terms, duration, startDate and endDate stay as proposed in both
C28_SignAndApproveKeepTheTerms ==
    [][\A i \in DOMAIN contracts :
          /\ request'.op = "signContract" =>
                /\ WithoutSignatures(contracts'[i]) = WithoutSignatures(contracts[i])
                /\ NextCallerHasRole("refugee") =>
                      contracts'[i].hostSignedAt = contracts[i].hostSignedAt
                /\ NextCallerHasRole("host") =>
                      contracts'[i].refugeeSignedAt = contracts[i].refugeeSignedAt
                /\ ~NextCallerHasRole("refugee") /\ ~NextCallerHasRole("host") =>
                      contracts'[i] = contracts[i]
          /\ request'.op = "approveContract" =>
                WithoutApproval(contracts'[i]) = WithoutApproval(contracts[i])
          /\ request'.op \in {"signContract", "approveContract"} =>
                /\ contracts'[i].refugeeId = contracts[i].refugeeId
                /\ contracts'[i].hostId = contracts[i].hostId
                /\ contracts'[i].terms = contracts[i].terms
                /\ contracts'[i].duration = contracts[i].duration
                /\ contracts'[i].startDate = contracts[i].startDate
                /\ contracts'[i].endDate = contracts[i].endDate]_vars

\* a contract proposed without a numbered duration was signed by both
\* parties and ratified an instant later, and ends six months after its start
C28_Witness ==
    \E i \in DOMAIN contracts :
        /\ request.op = "approveContract"
        /\ response.status = 200
        /\ contracts[i].duration = "flexible"
        /\ contracts[i].refugeeSignedAt # Null
        /\ contracts[i].hostSignedAt # Null
        /\ contracts[i].adminApprovedAt > contracts[i].hostSignedAt
        /\ contracts[i].status = "completed"
        /\ contracts[i].endDate = contracts[i].startDate + 6

(***************************************************************************)
(* Properties of the notice of a signed contract                           *)
(***************************************************************************)
\* C30: the notifications table never holds more 'Contract Ready for
\* Approval' notices than there are contracts, one for each at most
C30_AtMostOneReadyNotice == NumReadyNotices <= Len(contracts)

====
